---- MODULE Spec2Model ----
(***************************************************************************)
(* DrawFlat2D (amethyst_renderer/src/pass/flat2d/interleaved.rs): the 2D   *)
(* sprite pass.  One call of apply collects the frame's sprites and images *)
(* into a TextureBatch, sorts the unordered part by texture id, appends    *)
(* the ordered part, encodes the batch into instanced draw calls (one per  *)
(* run of equal texture ids) and resets the batch.                         *)
(***************************************************************************)
EXTENDS Integers, Sequences, FiniteSets, TLC

\* ------------------------------------------------------------------ bounds
NumEntities == 3
MaxQuads == 4

Entities == 1..NumEntities
TexIds == {1, 2, 3}
SheetIds == {1, 2}
SpriteNumbers == {0, 1, 2}

\* ------------------------------------------------------------ Option<T>
None == <<>>
Some(v) == <<v>>
IsSome(o) == o # None
Unwrap(o) == o[1]

\* ------------------------------------------------------------- assets
\* A loaded Texture; size() is all the pass reads of it.
TextureAsset(t) == [id |-> t, size |-> <<64 * t, 32 * t>>]

\* One Sprite of a sheet: width, height, offsets, tex_coords.
SpriteData(s, n) ==
    [width |-> 16 * (n + 1), height |-> 8 * s, offsets |-> <<n + 1, s>>,
     tex_coords |-> [left |-> n, right |-> n + 1, bottom |-> s - 1, top |-> s]]

\* A loaded SpriteSheet: its texture handle and its sprites (indices 0 and 1).
SheetAsset(s) ==
    [texture |-> s, sprites |-> <<SpriteData(s, 0), SpriteData(s, 1)>>]

\* AssetStorage::get: Some(asset) when the handle's asset is loaded.
StorageGet(storage, handle) == storage[handle]

Flips == {"Horizontal", "Vertical", "Both"}
WHITE == <<1, 1, 1, 1>>
Tint == <<1, 0, 0, 1>>
\* The Rgba components an entity can carry: two tints of different channels.
Tints == {Tint, <<0, 1, 2, 3>>}

\* The global matrix of entity e's Transform: unit axes, translated.
TransformOf(e) == [col0 |-> <<1, 0>>, col1 |-> <<0, 1>>, t |-> <<e, 2 * e, e>>]

\* ---------------------------------------------------------------- state
VARIABLES
    pc,             \* where DrawFlat2D::apply stands
    data,           \* the pass data handed to apply (components, visibility, asset stores)
    textures,       \* self.batch.textures
    iter,           \* position of the running join / visible_ordered iterator
    i,              \* encode: index of the quad being processed (0-based, as in the code)
    instance_data,  \* encode: the accumulator Vec<f32>
    num_instances,  \* encode: instances accumulated since the last flush
    draws,          \* effect.draw calls issued by this apply, in order
    buffers,        \* create_buffer_immutable calls made by this apply
    binds,          \* add_texture calls made by this apply: the texture ids bound, in order
    view_args,      \* set_view_args has been called by this apply
    warnings        \* warn! lines logged by this apply, in order

vars == <<pc, data, textures, iter, i, instance_data, num_instances, draws,
          buffers, binds, view_args, warnings>>

\* ------------------------------------------------------- TextureDrawData
\* TextureDrawData::Sprite / TextureDrawData::Image.  `entity` is a history
\* field (the entity the record was collected from); the code never reads it.
SpriteRecord(e, texture_handle, render, flipped, rgba, transform) ==
    [kind |-> "Sprite", texture_handle |-> texture_handle, render |-> render,
     flipped |-> flipped, rgba |-> rgba, transform |-> transform, entity |-> e]

ImageRecord(e, texture_handle, transform, flipped, rgba, dims) ==
    [kind |-> "Image", texture_handle |-> texture_handle, transform |-> transform,
     flipped |-> flipped, rgba |-> rgba, width |-> dims[1], height |-> dims[2],
     entity |-> e]

\* TextureDrawData::tex_id
tex_id(quad) == quad.texture_handle

\* The result of one collector call: the batch and the warnings it logged.
Collected(tx, warn) == [textures |-> tx, warn |-> warn]

\* add_image gone wrong: the record is put in front of the batch.
add_image_prepends(tx, e, texture_handle, transform, flipped, rgba, tex_storage) ==
    IF transform = None THEN Collected(tx, <<>>)
    ELSE LET tex == StorageGet(tex_storage, texture_handle) IN
         IF tex = None
         THEN Collected(tx, <<[warn |-> "Texture not loaded", entity |-> e]>>)
         ELSE Collected(<<ImageRecord(e, texture_handle, Unwrap(transform),
                                      flipped, rgba, Unwrap(tex).size)>> \o tx,
                        <<>>)

\* add_image gone wrong: the record of a texture that is not loaded is dropped
\* without a warning.
add_image_silent(tx, e, texture_handle, transform, flipped, rgba, tex_storage) ==
    IF transform = None THEN Collected(tx, <<>>)
    ELSE LET tex == StorageGet(tex_storage, texture_handle) IN
         IF tex = None
         THEN Collected(tx, <<>>)
         ELSE Collected(Append(tx, ImageRecord(e, texture_handle, Unwrap(transform),
                                               flipped, rgba, Unwrap(tex).size)),
                        <<>>)

\* TextureBatch::add_image
add_image(tx, e, texture_handle, transform, flipped, rgba, tex_storage) ==
    IF transform = None THEN Collected(tx, <<>>)
    ELSE LET tex == StorageGet(tex_storage, texture_handle) IN
         IF tex = None
         THEN Collected(tx, <<[warn |-> "Texture not loaded", entity |-> e]>>)
         ELSE Collected(Append(tx, ImageRecord(e, texture_handle, Unwrap(transform),
                                               flipped, rgba, Unwrap(tex).size)),
                        <<>>)

\* add_sprite gone wrong: the return after the texture warning is missing.
add_sprite_no_return(tx, e, sprite_render, transform, flipped, rgba, sprite_sheet_storage, tex_storage) ==
    IF transform = None THEN Collected(tx, <<>>)
    ELSE LET sheet == StorageGet(sprite_sheet_storage, sprite_render.sprite_sheet) IN
         IF sheet = None
         THEN Collected(tx, <<[warn |-> "Sprite sheet not loaded", entity |-> e]>>)
         ELSE Collected(Append(tx, SpriteRecord(e, Unwrap(sheet).texture, sprite_render,
                                                flipped, rgba, Unwrap(transform))),
                        IF StorageGet(tex_storage, Unwrap(sheet).texture) = None
                        THEN <<[warn |-> "Texture not loaded", entity |-> e]>>
                        ELSE <<>>)

\* add_sprite gone wrong: the sheet's texture is not looked up.
add_sprite_sheet_only(tx, e, sprite_render, transform, flipped, rgba, sprite_sheet_storage, tex_storage) ==
    IF transform = None THEN Collected(tx, <<>>)
    ELSE LET sheet == StorageGet(sprite_sheet_storage, sprite_render.sprite_sheet) IN
         IF sheet = None
         THEN Collected(tx, <<[warn |-> "Sprite sheet not loaded", entity |-> e]>>)
         ELSE Collected(Append(tx, SpriteRecord(e, Unwrap(sheet).texture, sprite_render,
                                                flipped, rgba, Unwrap(transform))),
                        <<>>)

\* add_sprite gone wrong: a sprite whose index is past the end of its sheet is
\* skipped at collection.
add_sprite_index_checked(tx, e, sprite_render, transform, flipped, rgba, sprite_sheet_storage, tex_storage) ==
    IF transform = None THEN Collected(tx, <<>>)
    ELSE LET sheet == StorageGet(sprite_sheet_storage, sprite_render.sprite_sheet) IN
         IF sheet = None
         THEN Collected(tx, <<[warn |-> "Sprite sheet not loaded", entity |-> e]>>)
         ELSE IF StorageGet(tex_storage, Unwrap(sheet).texture) = None
         THEN Collected(tx, <<[warn |-> "Texture not loaded", entity |-> e]>>)
         ELSE IF sprite_render.sprite_number >= Len(Unwrap(sheet).sprites)
         THEN Collected(tx, <<>>)
         ELSE Collected(Append(tx, SpriteRecord(e, Unwrap(sheet).texture, sprite_render,
                                                flipped, rgba, Unwrap(transform))),
                        <<>>)

\* TextureBatch::add_sprite
add_sprite(tx, e, sprite_render, transform, flipped, rgba, sprite_sheet_storage, tex_storage) ==
    IF transform = None THEN Collected(tx, <<>>)
    ELSE LET sheet == StorageGet(sprite_sheet_storage, sprite_render.sprite_sheet) IN
         IF sheet = None
         THEN Collected(tx, <<[warn |-> "Sprite sheet not loaded", entity |-> e]>>)
         ELSE IF StorageGet(tex_storage, Unwrap(sheet).texture) = None
         THEN Collected(tx, <<[warn |-> "Texture not loaded", entity |-> e]>>)
         ELSE Collected(Append(tx, SpriteRecord(e, Unwrap(sheet).texture, sprite_render,
                                                flipped, rgba, Unwrap(transform))),
                        <<>>)

\* Vec::sort_by is a stable sort: a record goes behind every record whose key
\* is not greater than its own.
RECURSIVE InsertByTexId(_, _)
InsertByTexId(sorted, quad) ==
    IF sorted = <<>> THEN <<quad>>
    ELSE IF tex_id(sorted[Len(sorted)]) <= tex_id(quad) THEN Append(sorted, quad)
    ELSE Append(InsertByTexId(SubSeq(sorted, 1, Len(sorted) - 1), quad),
                sorted[Len(sorted)])

RECURSIVE SortFrom(_, _)
SortFrom(sorted, rest) ==
    IF rest = <<>> THEN sorted
    ELSE SortFrom(InsertByTexId(sorted, Head(rest)), Tail(rest))

\* sort gone wrong: the batch is left as collected.
sort_nothing(tx) == tx

\* TextureBatch::sort
sort(tx) == SortFrom(<<>>, tx)

\* reset gone wrong: the records stay.
reset_nothing(tx) == tx

\* TextureBatch::reset
reset(tx) == <<>>

\* ----------------------------------------------------------------- encode
\* FlipFlags gone wrong: Both flips the horizontal axis only.
FlipFlags_both_horizontal(flipped) ==
    IF flipped = Some("Horizontal") THEN <<TRUE, FALSE>>
    ELSE IF flipped = Some("Vertical") THEN <<FALSE, TRUE>>
    ELSE IF flipped = Some("Both") THEN <<TRUE, FALSE>>
    ELSE <<FALSE, FALSE>>

\* encode, lines 446-451: (flip_horizontal, flip_vertical)
FlipFlags(flipped) ==
    IF flipped = Some("Horizontal") THEN <<TRUE, FALSE>>
    ELSE IF flipped = Some("Vertical") THEN <<FALSE, TRUE>>
    ELSE IF flipped = Some("Both") THEN <<TRUE, TRUE>>
    ELSE <<FALSE, FALSE>>

\* global_matrix * Vector4(x, y, 0, 1)
MulPoint(m, x, y) ==
    <<m.col0[1] * x + m.col1[1] * y + m.t[1],
      m.col0[2] * x + m.col1[2] * y + m.t[2],
      m.t[3]>>

\* encode, lines 453-527: the base UV rectangle, size and anchor point of a quad.
\* sheet is the quad's loaded sprite sheet (read for a Sprite only).
QuadGeometry(quad, sheet) ==
    IF quad.kind = "Sprite"
    THEN LET sprite_data == sheet.sprites[quad.render.sprite_number + 1] IN
         [tex_coords |-> sprite_data.tex_coords,
          width |-> sprite_data.width, height |-> sprite_data.height,
          pos |-> MulPoint(quad.transform, 0 - sprite_data.offsets[1],
                           0 - sprite_data.offsets[2])]
    ELSE [tex_coords |-> [left |-> 0, right |-> 1, bottom |-> 0, top |-> 1],
          width |-> quad.width, height |-> quad.height,
          pos |-> MulPoint(quad.transform, 1, 1)]

\* InstanceOf gone wrong: the tint is dropped, every quad is white.
InstanceOf_white(quad, sheet) ==
    LET flip == FlipFlags(quad.flipped)
        g == QuadGeometry(quad, sheet)
        uv_left == IF flip[1] THEN g.tex_coords.right ELSE g.tex_coords.left
        uv_right == IF flip[1] THEN g.tex_coords.left ELSE g.tex_coords.right
        uv_bottom == IF flip[2] THEN g.tex_coords.top ELSE g.tex_coords.bottom
        uv_top == IF flip[2] THEN g.tex_coords.bottom ELSE g.tex_coords.top
        rgba == WHITE
    IN  <<quad.transform.col0[1] * g.width, quad.transform.col0[2] * g.width,
          quad.transform.col1[1] * g.height, quad.transform.col1[2] * g.height,
          g.pos[1], g.pos[2], uv_left, uv_right, uv_bottom, uv_top, g.pos[3],
          rgba[1], rgba[2], rgba[3], rgba[4]>>

\* encode, lines 446-532: the 15 scalars appended to instance_data for a quad.
InstanceOf(quad, sheet) ==
    LET flip == FlipFlags(quad.flipped)
        g == QuadGeometry(quad, sheet)
        uv_left == IF flip[1] THEN g.tex_coords.right ELSE g.tex_coords.left
        uv_right == IF flip[1] THEN g.tex_coords.left ELSE g.tex_coords.right
        uv_bottom == IF flip[2] THEN g.tex_coords.top ELSE g.tex_coords.bottom
        uv_top == IF flip[2] THEN g.tex_coords.bottom ELSE g.tex_coords.top
        rgba == IF quad.rgba = None THEN WHITE ELSE Unwrap(quad.rgba)
    IN  <<quad.transform.col0[1] * g.width, quad.transform.col0[2] * g.width,
          quad.transform.col1[1] * g.height, quad.transform.col1[2] * g.height,
          g.pos[1], g.pos[2], uv_left, uv_right, uv_bottom, uv_top, g.pos[3],
          rgba[1], rgba[2], rgba[3], rgba[4]>>

\* need_flush gone wrong: the kinds of the two quads are compared, not their textures.
need_flush_by_kind(tx, idx) ==
    \/ idx >= Len(tx) - 1
    \/ tx[idx + 2].kind # tx[idx + 1].kind

\* need_flush gone wrong: every quad flushes.
need_flush_always(tx, idx) == TRUE

\* need_flush gone wrong: only the last quad flushes.
need_flush_at_end(tx, idx) == idx >= Len(tx) - 1

\* encode, lines 539-540 (idx is the 0-based i; tx[idx + 1] is the quad)
need_flush(tx, idx) ==
    \/ idx >= Len(tx) - 1
    \/ tex_id(tx[idx + 2]) # tex_id(tx[idx + 1])

\* The aborts of encode: the two expect()s on the asset stores, the unchecked
\* index into sprites, and the expect() on the buffer allocation.
Panics == {"panic_texture", "panic_sheet", "panic_index", "panic_buffer"}

\* encode, lines 442-467: the abort the lookups of a quad end in, or "" for none.
LookupPanic(quad, sprite_sheet_storage, tex_storage) ==
    IF StorageGet(tex_storage, quad.texture_handle) = None THEN "panic_texture"
    ELSE IF quad.kind # "Sprite" THEN ""
    ELSE LET sheet == StorageGet(sprite_sheet_storage, quad.render.sprite_sheet) IN
         IF sheet = None THEN "panic_sheet"
         ELSE IF quad.render.sprite_number >= Len(Unwrap(sheet).sprites)
         THEN "panic_index"
         ELSE ""

\* ------------------------------------------------------------- pass data
\* The components of one entity, as the storages of the pass data hold them.
Components(sprite_render, texture_handle, transform, flipped, rgba, hidden, hidden_prop, mesh) ==
    [sprite_render |-> sprite_render, texture_handle |-> texture_handle,
     transform |-> transform, flipped |-> flipped, rgba |-> rgba,
     hidden |-> hidden, hidden_prop |-> hidden_prop, mesh |-> mesh]

SpriteRender(s, n) == [sprite_sheet |-> s, sprite_number |-> n]

\* An entity with a transform and none of Hidden, HiddenPropagate, MeshHandle,
\* Flipped, Rgba.
Plain(e, sprite_render, texture_handle) ==
    Components(sprite_render, texture_handle, Some(TransformOf(e)), None, None,
               FALSE, FALSE, FALSE)

\* What an entity draws: nothing, a sprite, an image, or both.
Drawables ==
    {<<None, None>>}
    \cup {<<Some(SpriteRender(s, 0)), None>> : s \in SheetIds}
    \cup {<<None, Some(t)>> : t \in TexIds}
    \cup {<<Some(SpriteRender(1, 0)), Some(2)>>}

\* The drawables of the frames that vary something else.
FewDrawables == {<<Some(SpriteRender(1, 0)), None>>, <<None, Some(2)>>}
VisibleDrawables ==
    {<<Some(SpriteRender(s, 0)), None>> : s \in SheetIds} \cup {<<None, Some(t)>> : t \in {1, 3}}

PlainOf(k) == [e \in Entities |-> Plain(e, k[e][1], k[e][2])]

\* One change of one entity: it loses its transform, or gains one of the
\* Hidden, HiddenPropagate and MeshHandle components.
Flagged(c, flag) ==
    CASE flag = "no_transform" -> [c EXCEPT !.transform = None]
      [] flag = "hidden" -> [c EXCEPT !.hidden = TRUE]
      [] flag = "hidden_prop" -> [c EXCEPT !.hidden_prop = TRUE]
      [] flag = "mesh" -> [c EXCEPT !.mesh = TRUE]

Flags == {"no_transform", "hidden", "hidden_prop", "mesh"}

\* The asset stores with at most one asset not loaded.
SheetStorages ==
    {[s \in SheetIds |-> IF s \in L THEN Some(SheetAsset(s)) ELSE None] :
        L \in {SheetIds} \cup {SheetIds \ {x} : x \in SheetIds}}
TexStorages ==
    {[t \in TexIds |-> IF t \in L THEN Some(TextureAsset(t)) ELSE None] :
        L \in {TexIds} \cup {TexIds \ {x} : x \in TexIds}}
AllSheets == [s \in SheetIds |-> Some(SheetAsset(s))]
AllTextures == [t \in TexIds |-> Some(TextureAsset(t))]

\* The draw orders of the entities of O: every arrangement of O.
Orders(O) ==
    {o \in [1..Cardinality(O) -> O] : \A a, b \in 1..Cardinality(O) : o[a] = o[b] => a = b}

\* SpriteVisibility: an unordered set and an ordered list of other entities.
Visibilities ==
    {[visible_unordered |-> U, visible_ordered |-> o] :
        <<U, o>> \in UNION {{<<U, o>> : o \in Orders(O)} :
                            <<U, O>> \in {uo \in (SUBSET Entities) \X (SUBSET Entities) :
                                            uo[1] \cap uo[2] = {}}}}

PassData(components, visibility, sprite_sheet_storage, tex_storage) ==
    [components |-> components, visibility |-> visibility,
     sprite_sheet_storage |-> sprite_sheet_storage, tex_storage |-> tex_storage]

\* No apply is running: there is no pass data.
NoData ==
    PassData([e \in Entities |-> Components(None, None, None, None, None, FALSE, FALSE, FALSE)],
             None, [s \in SheetIds |-> None], [t \in TexIds |-> None])

\* -------------------------------------------------------------- apply
\* SpriteJoin gone wrong: without a visibility result, HiddenPropagate is not
\* joined against.
SpriteJoin_hidden_only(d) ==
    {e \in Entities :
        /\ IsSome(d.components[e].sprite_render)
        /\ IsSome(d.components[e].transform)
        /\ IF d.visibility = None
           THEN ~d.components[e].hidden
           ELSE e \in Unwrap(d.visibility).visible_unordered}

\* The entities the sprite join yields (lines 162-171, 205-213).
SpriteJoin(d) ==
    {e \in Entities :
        /\ IsSome(d.components[e].sprite_render)
        /\ IsSome(d.components[e].transform)
        /\ IF d.visibility = None
           THEN ~d.components[e].hidden /\ ~d.components[e].hidden_prop
           ELSE e \in Unwrap(d.visibility).visible_unordered}

\* The entities the image join yields (lines 182-192, 224-233).
ImageJoin(d) ==
    {e \in Entities :
        /\ IsSome(d.components[e].texture_handle)
        /\ IsSome(d.components[e].transform)
        /\ ~d.components[e].mesh
        /\ IF d.visibility = None
           THEN ~d.components[e].hidden /\ ~d.components[e].hidden_prop
           ELSE e \in Unwrap(d.visibility).visible_unordered}

\* A join yields its entities in index order: the next one from k on, or 0.
NextIn(J, k) ==
    IF \E e \in J : e >= k THEN CHOOSE e \in J : e >= k /\ \A f \in J : f >= k => e <= f
    ELSE 0

\* The pass can be applied: it is new, or its last apply has returned.
Callable == pc \in {"new", "idle"}

\* apply is called with the frame's pass data.
Apply(d) ==
    /\ Callable
    /\ pc' = "sprites"
    /\ data' = d
    /\ iter' = 1
    /\ i' = 0 /\ instance_data' = <<>> /\ num_instances' = 0
    /\ draws' = <<>> /\ buffers' = 0 /\ binds' = <<>>
    /\ view_args' = FALSE /\ warnings' = <<>>
    /\ UNCHANGED textures

\* One round of the sprite loop (lines 162-180, 205-222).
CollectSprite ==
    /\ pc = "sprites"
    /\ LET e == NextIn(SpriteJoin(data), iter) IN
       IF e = 0
       THEN /\ pc' = "images" /\ iter' = 1
            /\ UNCHANGED <<textures, warnings>>
       ELSE LET c == data.components[e]
                r == add_sprite(textures, e, Unwrap(c.sprite_render), c.transform,
                                c.flipped, c.rgba, data.sprite_sheet_storage,
                                data.tex_storage)
            IN /\ textures' = r.textures
               /\ warnings' = warnings \o r.warn
               /\ iter' = e + 1
               /\ UNCHANGED pc
    /\ UNCHANGED <<data, i, instance_data, num_instances, draws, buffers, binds, view_args>>

\* One round of the image loop (lines 182-200, 224-241).
CollectImage ==
    /\ pc = "images"
    /\ LET e == NextIn(ImageJoin(data), iter) IN
       IF e = 0
       THEN /\ pc' = "sort" /\ iter' = 1
            /\ UNCHANGED <<textures, warnings>>
       ELSE LET c == data.components[e]
                r == add_image(textures, e, Unwrap(c.texture_handle), c.transform,
                               c.flipped, c.rgba, data.tex_storage)
            IN /\ textures' = r.textures
               /\ warnings' = warnings \o r.warn
               /\ iter' = e + 1
               /\ UNCHANGED pc
    /\ UNCHANGED <<data, i, instance_data, num_instances, draws, buffers, binds, view_args>>

\* Sort gone wrong: encode follows the sort even with a visibility result.
Sort_skips_ordered ==
    /\ pc = "sort"
    /\ textures' = sort(textures)
    /\ pc' = "encode"
    /\ iter' = 1
    /\ UNCHANGED <<data, i, instance_data, num_instances, draws, buffers, binds,
                   view_args, warnings>>

\* self.batch.sort() (lines 202, 244)
Sort ==
    /\ pc = "sort"
    /\ textures' = sort(textures)
    /\ pc' = IF data.visibility = None THEN "encode" ELSE "ordered"
    /\ iter' = 1
    /\ UNCHANGED <<data, i, instance_data, num_instances, draws, buffers, binds,
                   view_args, warnings>>

\* CollectOrdered gone wrong: the batch is sorted again after each append.
CollectOrdered_sorting ==
    /\ pc = "ordered"
    /\ LET ordered == Unwrap(data.visibility).visible_ordered IN
       IF iter > Len(ordered)
       THEN /\ pc' = "encode" /\ iter' = 1
            /\ UNCHANGED <<textures, warnings>>
       ELSE LET e == ordered[iter]
                c == data.components[e]
                r == IF IsSome(c.sprite_render)
                     THEN add_sprite(textures, e, Unwrap(c.sprite_render), c.transform,
                                     c.flipped, c.rgba, data.sprite_sheet_storage,
                                     data.tex_storage)
                     ELSE IF IsSome(c.texture_handle)
                     THEN add_image(textures, e, Unwrap(c.texture_handle), c.transform,
                                    c.flipped, c.rgba, data.tex_storage)
                     ELSE Collected(textures, <<>>)
            IN /\ textures' = sort(r.textures)
               /\ warnings' = warnings \o r.warn
               /\ iter' = iter + 1
               /\ UNCHANGED pc
    /\ UNCHANGED <<data, i, instance_data, num_instances, draws, buffers, binds, view_args>>

\* CollectOrdered gone wrong: an entity whose sprite was not appended is tried
\* as an image.
CollectOrdered_falls_back ==
    /\ pc = "ordered"
    /\ LET ordered == Unwrap(data.visibility).visible_ordered IN
       IF iter > Len(ordered)
       THEN /\ pc' = "encode" /\ iter' = 1
            /\ UNCHANGED <<textures, warnings>>
       ELSE LET e == ordered[iter]
                c == data.components[e]
                s == IF IsSome(c.sprite_render)
                     THEN add_sprite(textures, e, Unwrap(c.sprite_render), c.transform,
                                     c.flipped, c.rgba, data.sprite_sheet_storage,
                                     data.tex_storage)
                     ELSE Collected(textures, <<>>)
                r == IF s.textures = textures /\ IsSome(c.texture_handle)
                     THEN add_image(textures, e, Unwrap(c.texture_handle), c.transform,
                                    c.flipped, c.rgba, data.tex_storage)
                     ELSE Collected(s.textures, <<>>)
            IN /\ textures' = r.textures
               /\ warnings' = warnings \o s.warn \o r.warn
               /\ iter' = iter + 1
               /\ UNCHANGED pc
    /\ UNCHANGED <<data, i, instance_data, num_instances, draws, buffers, binds, view_args>>

\* One round of the loop over visibility.visible_ordered (lines 246-265).
CollectOrdered ==
    /\ pc = "ordered"
    /\ LET ordered == Unwrap(data.visibility).visible_ordered IN
       IF iter > Len(ordered)
       THEN /\ pc' = "encode" /\ iter' = 1
            /\ UNCHANGED <<textures, warnings>>
       ELSE LET e == ordered[iter]
                c == data.components[e]
                r == IF IsSome(c.sprite_render)
                     THEN add_sprite(textures, e, Unwrap(c.sprite_render), c.transform,
                                     c.flipped, c.rgba, data.sprite_sheet_storage,
                                     data.tex_storage)
                     ELSE IF IsSome(c.texture_handle)
                     THEN add_image(textures, e, Unwrap(c.texture_handle), c.transform,
                                    c.flipped, c.rgba, data.tex_storage)
                     ELSE Collected(textures, <<>>)
            IN /\ textures' = r.textures
               /\ warnings' = warnings \o r.warn
               /\ iter' = iter + 1
               /\ UNCHANGED pc
    /\ UNCHANGED <<data, i, instance_data, num_instances, draws, buffers, binds, view_args>>

\* EncodeBegin gone wrong: the view arguments are set before the batch is
\* looked at.
EncodeBegin_view_args_first ==
    /\ pc = "encode"
    /\ view_args' = TRUE
    /\ pc' = IF textures = <<>> THEN "reset" ELSE "encode_loop"
    /\ i' = 0 /\ instance_data' = <<>> /\ num_instances' = 0
    /\ UNCHANGED <<data, textures, iter, draws, buffers, binds, warnings>>

\* encode up to its loop (lines 424-439): return on an empty batch, else set
\* the view arguments.
EncodeBegin ==
    /\ pc = "encode"
    /\ IF textures = <<>>
       THEN pc' = "reset" /\ UNCHANGED view_args
       ELSE pc' = "encode_loop" /\ view_args' = TRUE
    /\ i' = 0 /\ instance_data' = <<>> /\ num_instances' = 0
    /\ UNCHANGED <<data, textures, iter, draws, buffers, binds, warnings>>

\* EncodeQuad gone wrong: instance_data is not cleared after a flush.
EncodeQuad_keeps_instance_data(alloc_ok) ==
    /\ pc = "encode_loop"
    /\ LET quad == textures[i + 1]
           panic == LookupPanic(quad, data.sprite_sheet_storage, data.tex_storage)
       IN
       IF panic # ""
       THEN /\ pc' = panic
            /\ UNCHANGED <<i, instance_data, num_instances, draws, buffers, binds>>
       ELSE LET texture == Unwrap(StorageGet(data.tex_storage, quad.texture_handle))
                sheet == IF quad.kind = "Sprite"
                         THEN Unwrap(StorageGet(data.sprite_sheet_storage,
                                                quad.render.sprite_sheet))
                         ELSE None
                filled == instance_data \o InstanceOf(quad, sheet)
            IN
            IF ~need_flush(textures, i)
            THEN /\ alloc_ok
                 /\ instance_data' = filled
                 /\ num_instances' = num_instances + 1
                 /\ i' = i + 1
                 /\ UNCHANGED <<pc, draws, buffers, binds>>
            ELSE /\ binds' = Append(binds, texture.id)
                 /\ buffers' = buffers + 1
                 /\ IF alloc_ok
                    THEN /\ draws' = Append(draws, [texture |-> texture.id,
                                                    instances |-> num_instances + 1,
                                                    vbuf |-> filled])
                         /\ num_instances' = 0
                         /\ instance_data' = filled
                         /\ i' = i + 1
                         /\ pc' = IF i + 1 >= Len(textures) THEN "reset" ELSE "encode_loop"
                    ELSE /\ pc' = "panic_buffer"
                         /\ instance_data' = filled
                         /\ num_instances' = num_instances + 1
                         /\ UNCHANGED <<i, draws>>
    /\ UNCHANGED <<data, textures, iter, view_args, warnings>>

\* EncodeQuad gone wrong: a failed buffer allocation is not fatal, the round is
\* run again.
EncodeQuad_retries(alloc_ok) ==
    /\ pc = "encode_loop"
    /\ LET quad == textures[i + 1]
           panic == LookupPanic(quad, data.sprite_sheet_storage, data.tex_storage)
       IN
       IF panic # ""
       THEN /\ pc' = panic
            /\ UNCHANGED <<i, instance_data, num_instances, draws, buffers, binds>>
       ELSE LET texture == Unwrap(StorageGet(data.tex_storage, quad.texture_handle))
                sheet == IF quad.kind = "Sprite"
                         THEN Unwrap(StorageGet(data.sprite_sheet_storage,
                                                quad.render.sprite_sheet))
                         ELSE None
                filled == instance_data \o InstanceOf(quad, sheet)
            IN
            IF ~need_flush(textures, i)
            THEN /\ alloc_ok
                 /\ instance_data' = filled
                 /\ num_instances' = num_instances + 1
                 /\ i' = i + 1
                 /\ UNCHANGED <<pc, draws, buffers, binds>>
            ELSE /\ binds' = Append(binds, texture.id)
                 /\ buffers' = buffers + 1
                 /\ IF alloc_ok
                    THEN /\ draws' = Append(draws, [texture |-> texture.id,
                                                    instances |-> num_instances + 1,
                                                    vbuf |-> filled])
                         /\ num_instances' = 0
                         /\ instance_data' = <<>>
                         /\ i' = i + 1
                         /\ pc' = IF i + 1 >= Len(textures) THEN "reset" ELSE "encode_loop"
                    ELSE UNCHANGED <<pc, i, instance_data, num_instances, draws>>
    /\ UNCHANGED <<data, textures, iter, view_args, warnings>>

\* One round of encode's loop (lines 441-569).  alloc_ok is whether
\* create_buffer_immutable succeeds, should this round flush.
EncodeQuad(alloc_ok) ==
    /\ pc = "encode_loop"
    /\ LET quad == textures[i + 1]
           panic == LookupPanic(quad, data.sprite_sheet_storage, data.tex_storage)
       IN
       IF panic # ""
       THEN /\ pc' = panic
            /\ UNCHANGED <<i, instance_data, num_instances, draws, buffers, binds>>
       ELSE LET texture == Unwrap(StorageGet(data.tex_storage, quad.texture_handle))
                sheet == IF quad.kind = "Sprite"
                         THEN Unwrap(StorageGet(data.sprite_sheet_storage,
                                                quad.render.sprite_sheet))
                         ELSE None
                filled == instance_data \o InstanceOf(quad, sheet)
            IN
            IF ~need_flush(textures, i)
            THEN /\ alloc_ok
                 /\ instance_data' = filled
                 /\ num_instances' = num_instances + 1
                 /\ i' = i + 1
                 /\ UNCHANGED <<pc, draws, buffers, binds>>
            ELSE /\ binds' = Append(binds, texture.id)
                 /\ buffers' = buffers + 1
                 /\ IF alloc_ok
                    THEN /\ draws' = Append(draws, [texture |-> texture.id,
                                                    instances |-> num_instances + 1,
                                                    vbuf |-> filled])
                         /\ num_instances' = 0
                         /\ instance_data' = <<>>
                         /\ i' = i + 1
                         /\ pc' = IF i + 1 >= Len(textures) THEN "reset" ELSE "encode_loop"
                    ELSE /\ pc' = "panic_buffer"
                         /\ instance_data' = filled
                         /\ num_instances' = num_instances + 1
                         /\ UNCHANGED <<i, draws>>
    /\ UNCHANGED <<data, textures, iter, view_args, warnings>>

\* self.batch.reset() and the return of apply (line 276): the pass data and
\* the locals of the call are gone, the batch stays with the pass.
Reset ==
    /\ pc = "reset"
    /\ textures' = reset(textures)
    /\ pc' = "idle"
    /\ data' = NoData
    /\ iter' = 1
    /\ i' = 0 /\ instance_data' = <<>> /\ num_instances' = 0
    /\ draws' = <<>> /\ buffers' = 0 /\ binds' = <<>>
    /\ view_args' = FALSE /\ warnings' = <<>>

Init ==
    /\ pc = "new"
    /\ data = NoData
    /\ textures = <<>>
    /\ iter = 1
    /\ i = 0 /\ instance_data = <<>> /\ num_instances = 0
    /\ draws = <<>> /\ buffers = 0 /\ binds = <<>>
    /\ view_args = FALSE /\ warnings = <<>>

Step ==
    \/ CollectSprite
    \/ CollectImage
    \/ Sort
    \/ CollectOrdered
    \/ EncodeBegin
    \/ \E alloc_ok \in BOOLEAN : EncodeQuad(alloc_ok)
    \/ Reset

\* No visibility result, or one that lists every entity: all unordered, or all
\* ordered by index.
WholeVisibilities ==
    {None,
     Some([visible_unordered |-> Entities, visible_ordered |-> <<>>]),
     Some([visible_unordered |-> {}, visible_ordered |-> [k \in Entities |-> k]])}

\* A frame with at most one asset not loaded: plain entities.
ApplyAssetFrame ==
    /\ Callable
    /\ \E k \in [Entities -> Drawables], v \in WholeVisibilities :
       \E ss \in SheetStorages, ts \in TexStorages :
          /\ ss = AllSheets \/ ts = AllTextures
          /\ Apply(PassData(PlainOf(k), v, ss, ts))

\* A frame with every asset loaded and one entity flagged.
ApplyFlagFrame ==
    /\ Callable
    /\ \E e \in Entities, flag \in Flags, d \in Drawables :
       \E k \in [Entities -> FewDrawables], v \in WholeVisibilities :
          Apply(PassData([PlainOf(k) EXCEPT ![e] = Flagged(Plain(e, d[1], d[2]), flag)],
                         v, AllSheets, AllTextures))

\* A frame with a visibility result, every asset loaded, plain entities.
ApplyVisibilityFrame ==
    /\ Callable
    /\ \E k \in [Entities -> VisibleDrawables], v \in Visibilities :
          Apply(PassData(PlainOf(k), Some(v), AllSheets, AllTextures))

\* A frame with every asset loaded and one sprite of any index, index 2 being
\* past the end of its sheet.
ApplyIndexFrame ==
    /\ Callable
    /\ \E e \in Entities, s \in SheetIds, n \in SpriteNumbers :
       \E k \in [Entities -> FewDrawables], v \in WholeVisibilities :
          Apply(PassData([PlainOf(k) EXCEPT ![e] = Plain(e, Some(SpriteRender(s, n)), None)],
                         v, AllSheets, AllTextures))

\* A frame whose entities are all in visible_ordered, one of them without a
\* transform, with one asset not loaded.
ApplyOrderedDropFrame ==
    /\ Callable
    /\ \E e \in Entities, k \in [Entities -> FewDrawables] :
       \E ss \in SheetStorages, ts \in TexStorages :
          /\ (ss = AllSheets) # (ts = AllTextures)
          /\ Apply(PassData([PlainOf(k) EXCEPT ![e] = Flagged(PlainOf(k)[e], "no_transform")],
                            Some([visible_unordered |-> {},
                                  visible_ordered |-> [x \in Entities |-> x]]),
                            ss, ts))

Next ==
    \/ ApplyAssetFrame
    \/ ApplyFlagFrame
    \/ ApplyVisibilityFrame
    \/ ApplyIndexFrame
    \/ ApplyOrderedDropFrame
    \/ Step

Spec == Init /\ [][Next]_vars

\* ------------------------------------------------- sort and encode alone
\* The records a batch can hold at position k, every asset loaded: a sprite of
\* any sheet and index (index 2 is past the end of its sheet), or an image of
\* any texture.
QuadsAt(k) ==
    {SpriteRecord(k, SheetAsset(s).texture, SpriteRender(s, n), None, None, TransformOf(k)) :
        s \in SheetIds, n \in SpriteNumbers}
    \cup {ImageRecord(k, t, TransformOf(k), None, None, TextureAsset(t).size) : t \in TexIds}

\* The batches of n records.
RECURSIVE BatchesOfLen(_)
BatchesOfLen(n) ==
    IF n = 0 THEN {<<>>}
    ELSE {Append(tx, q) : tx \in BatchesOfLen(n - 1), q \in QuadsAt(n)}

\* The batches of up to MaxQuads records.
Batches == UNION {BatchesOfLen(n) : n \in 0..MaxQuads}

\* The batches of one record with any flip and tint.
DecoratedBatches ==
    {<<[q EXCEPT !.flipped = f, !.rgba = c]>> :
        q \in QuadsAt(1), f \in {None} \cup {Some(x) : x \in Flips}, c \in {None, Some(Tint)}}

\* The records of texture 1 at position k with any flip and any tint.
DecoratedAt(k) ==
    {[q EXCEPT !.flipped = f, !.rgba = c] :
        q \in {r \in QuadsAt(k) : tex_id(r) = 1 /\ (r.kind = "Sprite" => r.render.sprite_number < 2)},
        f \in {None} \cup {Some(x) : x \in Flips},
        c \in {None} \cup {Some(x) : x \in Tints}}

\* The batches of two decorated records of one texture: one draw call holds both.
DecoratedPairs == {<<a, b>> : a \in DecoratedAt(1), b \in DecoratedAt(2)}

\* sort and encode run on any batch: the batch as the unordered loops left it
\* (before sort, no visibility result), or the final batch (before encode).
InitBatch ==
    /\ pc \in {"sort", "encode"}
    /\ data = PassData(NoData.components, None, AllSheets, AllTextures)
    /\ textures \in Batches \cup DecoratedBatches \cup DecoratedPairs
    /\ iter = 1
    /\ i = 0 /\ instance_data = <<>> /\ num_instances = 0
    /\ draws = <<>> /\ buffers = 0 /\ binds = <<>>
    /\ view_args = FALSE /\ warnings = <<>>

NextBatch ==
    \/ Sort
    \/ EncodeBegin
    \/ \E alloc_ok \in BOOLEAN : EncodeQuad(alloc_ok)
    \/ Reset

SpecBatch == InitBatch /\ [][NextBatch]_vars

\* ================================================================ claims
TexIdsOf(tx) == [k \in 1..Len(tx) |-> tex_id(tx[k])]

\* The length of the maximal run of equal texture ids a non-empty batch starts with.
FirstRunLen(tx) ==
    CHOOSE n \in 1..Len(tx) :
        /\ \A k \in 1..n : tex_id(tx[k]) = tex_id(tx[1])
        /\ n = Len(tx) \/ tex_id(tx[n + 1]) # tex_id(tx[1])

\* The maximal runs of consecutive records of equal texture id, in order.
RECURSIVE Runs(_)
Runs(tx) ==
    IF tx = <<>> THEN <<>>
    ELSE <<SubSeq(tx, 1, FirstRunLen(tx))>>
         \o Runs(SubSeq(tx, FirstRunLen(tx) + 1, Len(tx)))

\* The sheet a sprite record's index is resolved in (None for an image).
SheetOf(quad) ==
    IF quad.kind = "Sprite" THEN Unwrap(data.sprite_sheet_storage[quad.render.sprite_sheet])
    ELSE None

\* The instance data of the records of a run, one after the other.
RECURSIVE RunData(_)
RunData(run) ==
    IF run = <<>> THEN <<>>
    ELSE InstanceOf(Head(run), SheetOf(Head(run))) \o RunData(Tail(run))

\* The draw calls are the runs: as many, in order, each with its run's length,
\* texture and instances.
DrawsAreRuns(calls, runs) ==
    /\ Len(calls) = Len(runs)
    /\ \A k \in 1..Len(runs) :
        /\ calls[k].instances = Len(runs[k])
        /\ \A q \in 1..Len(runs[k]) : calls[k].texture = tex_id(runs[k][q])
        /\ calls[k].vbuf = RunData(runs[k])

\* C1: encode issues exactly one draw call per maximal run of consecutive
\* records of equal texture id: when it returns, the draw calls are the runs of
\* the batch (count, order, instance count, texture, instances), and while it
\* loops, they are the runs of the records already flushed.
C1_DrawCallPerRun ==
    /\ pc = "reset" => DrawsAreRuns(draws, Runs(textures))
    /\ pc = "encode_loop" =>
         DrawsAreRuns(draws, Runs(SubSeq(textures, 1, i - num_instances)))

\* A batch of four records was encoded into three calls, the first and the
\* last of the same texture.
C1_Witness ==
    /\ pc = "reset" /\ Len(textures) = 4 /\ Len(draws) = 3
    /\ draws[1].texture = draws[3].texture /\ draws[2].instances = 2

\* The records of a are the records of b, each as often.
IsPermutation(a, b) ==
    /\ Len(a) = Len(b)
    /\ \A q \in {a[k] : k \in 1..Len(a)} \cup {b[k] : k \in 1..Len(b)} :
         Cardinality({k \in 1..Len(a) : a[k] = q}) = Cardinality({k \in 1..Len(b) : b[k] = q})

NonDecreasing(ids) == \A k \in 1..(Len(ids) - 1) : ids[k] <= ids[k + 1]

DistinctTexIds(tx) == {tex_id(tx[k]) : k \in 1..Len(tx)}

\* The frame has unordered records only: no visibility result, or one with an
\* empty ordered list.
UnorderedOnly ==
    \/ data.visibility = None
    \/ Unwrap(data.visibility).visible_ordered = <<>>

\* C3: sort permutes the accumulated records into non-decreasing texture id, so
\* that a frame with unordered records only is drawn with one call per distinct
\* texture id, in texture-id order, each call holding every record of its texture.
C3_SortGroupsTextures ==
    /\ [][pc = "sort" => /\ IsPermutation(textures', textures)
                         /\ NonDecreasing(TexIdsOf(textures'))]_vars
    /\ [](pc = "reset" /\ UnorderedOnly =>
            /\ Len(draws) = Cardinality(DistinctTexIds(textures))
            /\ \A k \in 1..Len(draws) :
                 draws[k].instances =
                     Cardinality({q \in 1..Len(textures) : tex_id(textures[q]) = draws[k].texture})
            /\ \A k \in 1..(Len(draws) - 1) : draws[k].texture < draws[k + 1].texture)

\* Records collected as textures 1, 2, 1 were drawn with two calls, of two
\* instances of texture 1 and one of texture 2.
C3_Witness ==
    /\ pc = "reset" /\ UnorderedOnly
    /\ Len(textures) = 3
    /\ {textures[1].entity, textures[2].entity} = {1, 3} /\ textures[3].entity = 2
    /\ textures[1].kind # textures[2].kind
    /\ Len(draws) = 2
    /\ draws[1].instances = 2 /\ draws[1].texture = 1
    /\ draws[2].instances = 1 /\ draws[2].texture = 2

SameTexture(tx) == \A a, b \in 1..Len(tx) : tex_id(tx[a]) = tex_id(tx[b])

\* C4: a batch of N >= 1 quads that all share one texture, whatever their
\* kinds and sprite indices, is drawn with exactly one call of N instances.
C4_OneTextureOneCall ==
    (pc = "reset" /\ textures # <<>> /\ SameTexture(textures)) =>
        (Len(draws) = 1 /\ draws[1].instances = Len(textures))

\* Four quads of one texture, sprites of different indices and an image among
\* them, were drawn with one call.
C4_Witness ==
    /\ pc = "reset" /\ Len(textures) = 4 /\ SameTexture(textures)
    /\ \E a, b, c \in 1..4 :
         /\ textures[a].kind = "Sprite" /\ textures[b].kind = "Sprite"
         /\ textures[a].render.sprite_number # textures[b].render.sprite_number
         /\ textures[c].kind = "Image"
    /\ Len(draws) = 1 /\ draws[1].instances = 4

AllDistinctTextures(tx) == \A a, b \in 1..Len(tx) : tex_id(tx[a]) = tex_id(tx[b]) => a = b

\* C5: a batch of N quads of N distinct textures is drawn with exactly N
\* calls, each of one instance.
C5_DistinctTexturesNCalls ==
    (pc = "reset" /\ AllDistinctTextures(textures)) =>
        (Len(draws) = Len(textures) /\ \A k \in 1..Len(draws) : draws[k].instances = 1)

\* Three quads of three textures, not in texture-id order, were drawn with
\* three calls.
C5_Witness ==
    /\ pc = "reset" /\ Len(textures) = 3 /\ AllDistinctTextures(textures)
    /\ tex_id(textures[1]) > tex_id(textures[2])
    /\ Len(draws) = 3

\* encode has run, to its end or to an abort.
Encoded == pc \in {"encode_loop", "reset"} \cup Panics

\* C6: on an empty batch encode issues no draw call and does nothing else that
\* shows: the view arguments are not set, no texture is bound, no buffer is
\* allocated.
C6_EmptyBatchNoEffect ==
    (Encoded /\ textures = <<>>) =>
        (draws = <<>> /\ ~view_args /\ binds = <<>> /\ buffers = 0)

\* encode returned on an empty batch in a frame that offered a sprite whose
\* sheet is not loaded.
C6_Witness ==
    /\ pc = "reset" /\ textures = <<>> /\ draws = <<>>
    /\ \E e \in Entities : IsSome(data.components[e].sprite_render)
    /\ warnings # <<>>

\* The record was collected from the pass data of the running apply.
FromThisFrame(quad) ==
    LET c == data.components[quad.entity] IN
    /\ c.transform = Some(quad.transform)
    /\ quad.kind = "Sprite" => c.sprite_render = Some(quad.render)
    /\ quad.kind = "Image" => c.texture_handle = Some(quad.texture_handle)

NothingDrawable ==
    \A e \in Entities :
        data.components[e].sprite_render = None /\ data.components[e].texture_handle = None

\* C7: the batch is empty when apply starts and when it has returned, reset
\* empties it whatever it holds, every record in it was collected from the pass
\* data of the running apply, and a frame with nothing drawable issues no draw call.
C7_BatchEmptyBetweenFrames ==
    /\ [](Callable => textures = <<>>)
    /\ []((pc = "sprites" /\ iter = 1) => textures = <<>>)
    /\ [][pc = "reset" => (textures' = <<>> /\ pc' = "idle")]_vars
    /\ [](\A k \in 1..Len(textures) : FromThisFrame(textures[k]))
    /\ []((Encoded /\ NothingDrawable) => draws = <<>>)

\* An apply has returned and left the batch empty.
C7_Witness == pc = "idle" /\ textures = <<>>

\* The collector appends a record for entity e, offered as the ordered loop
\* offers it: its transform is present and the assets of its sprite, or else of
\* its image, are loaded.
Survives(e) ==
    LET c == data.components[e] IN
    /\ c.transform # None
    /\ IF c.sprite_render # None
       THEN LET sheet == data.sprite_sheet_storage[Unwrap(c.sprite_render).sprite_sheet] IN
            sheet # None /\ data.tex_storage[Unwrap(sheet).texture] # None
       ELSE c.texture_handle # None /\ data.tex_storage[Unwrap(c.texture_handle)] # None

\* Collection is over.
CollectionOver == pc \in {"encode", "encode_loop", "reset"} \cup Panics

\* C2: with a visibility result, the records of the surviving entries of
\* visible_ordered are the tail of the final batch, in the supplied order, and
\* every record before them is one of the unordered subset, those being in
\* non-decreasing texture id.
C2_OrderedSubsetKeepsOrder ==
    (CollectionOver /\ data.visibility # None) =>
        LET v == Unwrap(data.visibility)
            surviving == SelectSeq(v.visible_ordered, Survives)
            n == Len(surviving)
            first == Len(textures) - n
        IN  /\ first >= 0
            /\ \A k \in 1..n : textures[first + k].entity = surviving[k]
            /\ \A k \in 1..first : textures[k].entity \in v.visible_unordered
            /\ NonDecreasing(TexIdsOf(SubSeq(textures, 1, first)))

\* Two ordered records in decreasing texture id follow an unordered record of
\* a greater texture id than the last: sorting would have moved all three.
C2_Witness ==
    /\ pc = "reset" /\ data.visibility # None
    /\ Len(textures) = 3
    /\ Unwrap(data.visibility).visible_ordered = <<textures[2].entity, textures[3].entity>>
    /\ textures[1].entity \in Unwrap(data.visibility).visible_unordered
    /\ tex_id(textures[2]) > tex_id(textures[3])
    /\ tex_id(textures[1]) > tex_id(textures[3])

\* The entities that carry a sprite reference or a raw texture reference.
CandidateEntities ==
    {e \in Entities :
        data.components[e].sprite_render # None \/ data.components[e].texture_handle # None}

SheetLoaded(sprite_render) == data.sprite_sheet_storage[sprite_render.sprite_sheet] # None
SheetTextureLoaded(sprite_render) ==
    /\ SheetLoaded(sprite_render)
    /\ data.tex_storage[Unwrap(data.sprite_sheet_storage[sprite_render.sprite_sheet]).texture] # None
TextureLoaded(texture_handle) == data.tex_storage[texture_handle] # None

\* No Sprite record has a sheet or a sheet texture that is not loaded, no Image
\* record a texture that is not loaded.
NoRecordOfMissingAsset ==
    \A k \in 1..Len(textures) :
        /\ textures[k].kind = "Sprite" => SheetTextureLoaded(textures[k].render)
        /\ textures[k].kind = "Image" => TextureLoaded(textures[k].texture_handle)

\* C8, as claimed: the records are at most as many as the candidate entities,
\* and a candidate whose sprite sheet or texture is not loaded contributes no record.
C8_RecordsAtMostEntities ==
    /\ Len(textures) <= Cardinality(CandidateEntities)
    /\ NoRecordOfMissingAsset

\* The candidates the frame offers to the collector: one per entity of the
\* sprite join, one per entity of the image join, one per entry of
\* visible_ordered that carries a sprite reference or a raw texture reference.
Offers ==
    Cardinality(SpriteJoin(data)) + Cardinality(ImageJoin(data))
    + (IF data.visibility = None THEN 0
       ELSE Cardinality({k \in 1..Len(Unwrap(data.visibility).visible_ordered) :
                            Unwrap(data.visibility).visible_ordered[k] \in CandidateEntities}))

\* C8, amended: the records and the warnings together are at most as many as
\* the candidates offered to the collector (an entity that carries both a
\* sprite and a raw texture reference is offered by both unordered loops), and
\* no Sprite record has a sheet or sheet texture that is not loaded, no Image
\* record a texture that is not loaded.
C8_RecordsAtMostOffers ==
    /\ Len(textures) + Len(warnings) <= Offers
    /\ NoRecordOfMissingAsset

\* One entity has contributed a sprite and an image record, and another
\* candidate was dropped for a missing asset.
C8_Witness ==
    /\ pc = "reset" /\ warnings # <<>>
    /\ \E a, b \in 1..Len(textures) : a # b /\ textures[a].entity = textures[b].entity
    /\ Len(textures) > Cardinality(CandidateEntities) - Len(warnings)

\* C9: every record in the batch references a loaded texture and, a Sprite
\* record, a loaded sprite sheet with that texture, so the two lookups of encode
\* never abort.
C9_RecordsReferenceLoadedAssets ==
    /\ \A k \in 1..Len(textures) :
         /\ data.tex_storage[textures[k].texture_handle] # None
         /\ textures[k].kind = "Sprite" =>
              /\ SheetLoaded(textures[k].render)
              /\ Unwrap(data.sprite_sheet_storage[textures[k].render.sprite_sheet]).texture
                     = textures[k].texture_handle
    /\ pc \notin {"panic_texture", "panic_sheet"}

\* encode has drawn a batch in a frame in which a sheet is loaded whose texture is not.
C9_Witness ==
    /\ pc = "reset" /\ draws # <<>>
    /\ \E e \in Entities :
         /\ data.components[e].sprite_render # None
         /\ SheetLoaded(Unwrap(data.components[e].sprite_render))
         /\ ~SheetTextureLoaded(Unwrap(data.components[e].sprite_render))

\* C10, as claimed: once the sort step has run, no record is appended until the reset.
C10_NoAppendAfterSort ==
    [][(pc \in {"ordered", "encode", "encode_loop", "reset"}) => Len(textures') <= Len(textures)]_vars

\* The steps of a frame: where apply stands now and where it may stand next.
FrameOrder ==
    /\ Callable => pc' = "sprites"
    /\ pc = "sprites" => pc' \in {"sprites", "images"}
    /\ pc = "images" => pc' \in {"images", "sort"}
    /\ pc = "sort" => pc' = IF data.visibility = None THEN "encode" ELSE "ordered"
    /\ pc = "ordered" => pc' \in {"ordered", "encode"}
    /\ pc = "encode" => pc' \in {"encode_loop", "reset"}
    /\ pc = "encode_loop" => pc' \in {"encode_loop", "reset"} \cup Panics
    /\ pc = "reset" => pc' = "idle"
    /\ pc \notin Panics

\* C10, amended: within a frame the batch moves Empty -> Collecting (the
\* unordered loops) -> Sorted -> Collecting (the loop over visible_ordered, with
\* a visibility result only) -> Encoding+Emitting -> Reset, in that order;
\* after the sort, records are appended by the loop over visible_ordered only,
\* each at the end of the batch, and none from the start of encode to the reset.
C10_FrameOrder ==
    [][/\ FrameOrder
       /\ textures' # textures =>
            \/ pc \in {"sprites", "images", "ordered"}
                 /\ Len(textures') = Len(textures) + 1
                 /\ SubSeq(textures', 1, Len(textures)) = textures
            \/ pc = "sort" /\ textures' = sort(textures)
            \/ pc = "reset" /\ textures' = <<>>]_vars

\* The loop over visible_ordered has appended a record to a sorted batch.
C10_Witness ==
    /\ pc = "ordered" /\ iter > 1 /\ Len(textures) >= 2
    /\ textures[Len(textures)].entity = Unwrap(data.visibility).visible_ordered[iter - 1]

\* C11, as claimed: no Image record in the batch stems from an entity that
\* carries a MeshHandle, whichever loop collected it.
C11_MeshNeverImage ==
    \A k \in 1..Len(textures) :
        textures[k].kind = "Image" => ~data.components[textures[k].entity].mesh

\* The sprite record's index is past the end of its loaded sheet.
OutOfRange(quad) ==
    /\ quad.kind = "Sprite"
    /\ SheetLoaded(quad.render)
    /\ quad.render.sprite_number
         >= Len(Unwrap(data.sprite_sheet_storage[quad.render.sprite_sheet]).sprites)

\* The entities the frame offers to add_sprite with a transform.
SpriteOffered ==
    SpriteJoin(data)
    \cup (IF data.visibility = None THEN {}
          ELSE {e \in Entities :
                  /\ \E k \in 1..Len(Unwrap(data.visibility).visible_ordered) :
                       Unwrap(data.visibility).visible_ordered[k] = e
                  /\ data.components[e].sprite_render # None
                  /\ data.components[e].transform # None})

\* The instances of the draw calls, summed.
RECURSIVE SumInstances(_)
SumInstances(calls) ==
    IF calls = <<>> THEN 0 ELSE Head(calls).instances + SumInstances(Tail(calls))

\* C12: collection appends a Sprite record for every offered sprite whose
\* sheet and sheet texture are loaded, whatever its index; a record whose index
\* is past the end of its sheet is never passed over by encode (encode does not
\* get beyond it, does not return, and no draw call reaches it), and the round
\* of encode that meets it aborts.
C12_IndexOutOfRangeAborts ==
    /\ [](CollectionOver =>
            \A e \in SpriteOffered :
                SheetTextureLoaded(Unwrap(data.components[e].sprite_render)) =>
                    \E k \in 1..Len(textures) :
                        /\ textures[k].kind = "Sprite" /\ textures[k].entity = e
                        /\ textures[k].render = Unwrap(data.components[e].sprite_render))
    /\ [](\A k \in 1..Len(textures) :
            OutOfRange(textures[k]) =>
                /\ SumInstances(draws) < k
                /\ pc = "encode_loop" => i < k
                /\ pc \notin {"reset", "idle"})
    /\ [](pc = "panic_index" => OutOfRange(textures[i + 1]))
    /\ [][(pc = "encode_loop" /\ OutOfRange(textures[i + 1])) => pc' = "panic_index"]_vars

\* encode has aborted on a sprite of index 2 after one draw call, with a record
\* of the sprite's texture accumulated and not drawn.
C12_Witness ==
    /\ pc = "panic_index"
    /\ textures[i + 1].render.sprite_number = 2
    /\ Len(draws) = 1 /\ num_instances = 1
    /\ tex_id(textures[i]) = tex_id(textures[i + 1])

\* The scalars of the draw calls' buffers, one call after the other.
RECURSIVE Uploaded(_)
Uploaded(calls) ==
    IF calls = <<>> THEN <<>> ELSE Head(calls).vbuf \o Uploaded(Tail(calls))

\* The instance the draw calls hold for the k-th record of the batch: the draw
\* calls take the records in batch order, 15 scalars each.
DrawnInstance(k) == SubSeq(Uploaded(draws), 15 * (k - 1) + 1, 15 * k)

\* The UV edges of a drawn instance: scalars 7 to 10 are uv_left, uv_right,
\* uv_bottom, uv_top.
UVOf(inst) == [left |-> inst[7], right |-> inst[8], bottom |-> inst[9], top |-> inst[10]]

\* The color of a drawn instance: scalars 12 to 15.
ColorOf(inst) == <<inst[12], inst[13], inst[14], inst[15]>>

\* The base UV rectangle of a record: its sprite's tex_coords, or the unit square.
BaseRect(quad) ==
    IF quad.kind = "Sprite"
    THEN Unwrap(data.sprite_sheet_storage[quad.render.sprite_sheet])
             .sprites[quad.render.sprite_number + 1].tex_coords
    ELSE [left |-> 0, right |-> 1, bottom |-> 0, top |-> 1]

SwapLeftRight(uv) == [uv EXCEPT !.left = uv.right, !.right = uv.left]
SwapBottomTop(uv) == [uv EXCEPT !.bottom = uv.top, !.top = uv.bottom]

\* C13: the UV edges drawn for a record are its base rectangle (the sprite's
\* tex_coords, the unit square for an image) with left and right swapped exactly
\* when the flip is Horizontal or Both, and bottom and top swapped exactly when
\* it is Vertical or Both; swapping left and right of a horizontally flipped
\* record's edges once more gives the base rectangle's.
C13_FlipSwapsUVEdges ==
    \A k \in 1..SumInstances(draws) :
        LET quad == textures[k]
            uv == UVOf(DrawnInstance(k))
            base == BaseRect(quad)
            h == quad.flipped \in {Some("Horizontal"), Some("Both")}
            v == quad.flipped \in {Some("Vertical"), Some("Both")}
        IN  /\ uv.left = (IF h THEN base.right ELSE base.left)
            /\ uv.right = (IF h THEN base.left ELSE base.right)
            /\ uv.bottom = (IF v THEN base.top ELSE base.bottom)
            /\ uv.top = (IF v THEN base.bottom ELSE base.top)
            /\ quad.flipped = Some("Horizontal") => SwapLeftRight(uv) = base
            /\ quad.flipped = Some("Vertical") => SwapBottomTop(uv) = base
            /\ quad.flipped = Some("Both") => SwapBottomTop(SwapLeftRight(uv)) = base

\* One draw call holds a sprite flipped on both axes and an image flipped
\* vertically, each with its own edges.
C13_Witness ==
    /\ pc = "reset" /\ Len(textures) = 2 /\ Len(draws) = 1
    /\ textures[1].kind = "Sprite" /\ textures[1].flipped = Some("Both")
    /\ textures[1].render.sprite_number = 1
    /\ textures[2].kind = "Image" /\ textures[2].flipped = Some("Vertical")
    /\ UVOf(DrawnInstance(1)) = [left |-> 2, right |-> 1, bottom |-> 1, top |-> 0]
    /\ UVOf(DrawnInstance(2)) = [left |-> 0, right |-> 1, bottom |-> 1, top |-> 0]

\* C14: a record without a flip is drawn with its base rectangle as UV edges,
\* a record without a tint with the color (1, 1, 1, 1), and a record with a
\* tint with exactly that tint.
C14_NoFlipNoTintRoundTrip ==
    \A k \in 1..SumInstances(draws) :
        LET quad == textures[k]
            inst == DrawnInstance(k)
        IN  /\ quad.flipped = None => UVOf(inst) = BaseRect(quad)
            /\ quad.rgba = None => ColorOf(inst) = <<1, 1, 1, 1>>
            /\ quad.rgba # None => ColorOf(inst) = quad.rgba[1]

\* One draw call holds a plain sprite and a tinted image: the first white with
\* its tex_coords, the second in its tint.
C14_Witness ==
    /\ pc = "reset" /\ Len(textures) = 2 /\ Len(draws) = 1
    /\ textures[1].kind = "Sprite" /\ textures[1].flipped = None /\ textures[1].rgba = None
    /\ textures[1].render.sprite_number = 1
    /\ textures[2].kind = "Image" /\ textures[2].rgba = Some(<<0, 1, 2, 3>>)
    /\ UVOf(DrawnInstance(1)) = [left |-> 1, right |-> 2, bottom |-> 0, top |-> 1]
    /\ ColorOf(DrawnInstance(1)) = <<1, 1, 1, 1>>
    /\ ColorOf(DrawnInstance(2)) = <<0, 1, 2, 3>>

\* The entity the running collection loop hands to add_sprite or add_image in
\* its next round, or 0 when the round makes no such call.
Offered ==
    IF pc = "sprites" THEN NextIn(SpriteJoin(data), iter)
    ELSE IF pc = "images" THEN NextIn(ImageJoin(data), iter)
    ELSE IF pc = "ordered" /\ iter <= Len(Unwrap(data.visibility).visible_ordered)
                           /\ Unwrap(data.visibility).visible_ordered[iter] \in CandidateEntities
    THEN Unwrap(data.visibility).visible_ordered[iter]
    ELSE 0

\* The next call of the collector is a call of add_sprite.
OfferedAsSprite ==
    pc = "sprites" \/ (pc = "ordered" /\ data.components[Offered].sprite_render # None)

\* The assets the offered candidate needs are loaded.
OfferedAssetsLoaded ==
    IF OfferedAsSprite
    THEN SheetTextureLoaded(Unwrap(data.components[Offered].sprite_render))
    ELSE TextureLoaded(Unwrap(data.components[Offered].texture_handle))

\* C15, as claimed: every call of add_sprite or add_image that appends no
\* record logs a warning.
C15_NoSilentDrop ==
    [][(Offered # 0 /\ Len(textures') = Len(textures)) =>
          Len(warnings') = Len(warnings) + 1]_vars

\* C15, amended: a call of add_sprite or add_image that appends no record for
\* want of a loaded sprite sheet or texture logs exactly one warning, naming
\* what is missing; a call that appends no record for want of a transform logs
\* none; a call that appends a record logs none.
C15_AssetDropsWarn ==
    [][Offered # 0 =>
          IF data.components[Offered].transform = None
          THEN textures' = textures /\ warnings' = warnings
          ELSE IF OfferedAssetsLoaded
          THEN Len(textures') = Len(textures) + 1 /\ warnings' = warnings
          ELSE /\ textures' = textures
               /\ warnings' =
                    Append(warnings,
                           [warn |-> IF OfferedAsSprite
                                        /\ ~SheetLoaded(Unwrap(data.components[Offered].sprite_render))
                                     THEN "Sprite sheet not loaded"
                                     ELSE "Texture not loaded",
                            entity |-> Offered])]_vars

\* A frame has dropped one ordered entity without a warning, for want of a
\* transform, and another with a warning, for want of its texture.
C15_Witness ==
    /\ pc = "reset" /\ data.visibility # None
    /\ \E e \in Entities :
         /\ data.components[e].transform = None
         /\ e \in CandidateEntities
         /\ \A k \in 1..Len(warnings) : warnings[k].entity # e
         /\ \A k \in 1..Len(textures) : textures[k].entity # e
    /\ \E k \in 1..Len(warnings) : warnings[k].warn = "Texture not loaded"
    /\ textures # <<>>

\* The records of entity e of the given kind in the batch, counted.
RecordsOf(e, kind) ==
    Cardinality({k \in 1..Len(textures) : textures[k].entity = e /\ textures[k].kind = kind})

\* C16: without a visibility result, once collection is over no record in the
\* batch stems from an entity flagged Hidden or HiddenPropagate, and every entity
\* with neither flag and a transform has one Sprite record if it carries a
\* sprite reference whose sheet and sheet texture are loaded, and one Image
\* record if it carries a raw texture reference whose texture is loaded and no
\* mesh marker.
C16_FullCollectionMinusHidden ==
    (CollectionOver /\ data.visibility = None) =>
        /\ \A k \in 1..Len(textures) :
             /\ ~data.components[textures[k].entity].hidden
             /\ ~data.components[textures[k].entity].hidden_prop
        /\ \A e \in Entities :
             LET c == data.components[e] IN
             (~c.hidden /\ ~c.hidden_prop /\ c.transform # None) =>
                 /\ (c.sprite_render # None /\ SheetTextureLoaded(Unwrap(c.sprite_render)))
                      => RecordsOf(e, "Sprite") = 1
                 /\ (c.texture_handle # None /\ TextureLoaded(Unwrap(c.texture_handle)) /\ ~c.mesh)
                      => RecordsOf(e, "Image") = 1

\* Without a visibility result, a frame with a HiddenPropagate sprite entity
\* has collected the records of its two other entities, a sprite and an image.
C16_Witness ==
    /\ pc = "reset" /\ data.visibility = None
    /\ \E e \in Entities :
         /\ data.components[e].hidden_prop
         /\ data.components[e].sprite_render # None
         /\ data.components[e].transform # None
         /\ RecordsOf(e, "Sprite") = 0
    /\ Len(textures) = 2
    /\ \E a, b \in 1..2 : textures[a].kind = "Sprite" /\ textures[b].kind = "Image"

\* The record the collector is to append for the offered candidate: of the
\* offered entity and kind, a sprite's texture being that of its sheet.
IsRecordOfOffered(quad) ==
    LET c == data.components[Offered] IN
    /\ quad.entity = Offered
    /\ quad.transform = Unwrap(c.transform)
    /\ quad.flipped = c.flipped /\ quad.rgba = c.rgba
    /\ IF OfferedAsSprite
       THEN /\ quad.kind = "Sprite"
            /\ quad.render = Unwrap(c.sprite_render)
            /\ quad.texture_handle
                 = Unwrap(data.sprite_sheet_storage[quad.render.sprite_sheet]).texture
       ELSE /\ quad.kind = "Image"
            /\ quad.texture_handle = Unwrap(c.texture_handle)
            /\ <<quad.width, quad.height>>
                 = Unwrap(data.tex_storage[quad.texture_handle]).size

\* C17: a call of add_sprite or add_image with a transform and loaded assets
\* appends exactly one record, that of the candidate, at the end of the batch
\* and leaves the records before it as they were; a call without a transform,
\* or whose sprite sheet or texture is not loaded, leaves the batch as it was;
\* either way nothing but the batch and the log changes.
C17_CollectorAppendsOneOrNothing ==
    [][Offered # 0 =>
          /\ IF data.components[Offered].transform # None /\ OfferedAssetsLoaded
             THEN /\ Len(textures') = Len(textures) + 1
                  /\ SubSeq(textures', 1, Len(textures)) = textures
                  /\ IsRecordOfOffered(textures'[Len(textures')])
             ELSE textures' = textures
          /\ UNCHANGED <<data, draws, buffers, binds, view_args, instance_data, num_instances>>]_vars

\* The image loop has appended a record of texture 1 behind a sprite record of
\* texture 2, after a candidate was dropped.
C17_Witness ==
    /\ pc = "images" /\ iter > 1
    /\ Len(textures) >= 2 /\ warnings # <<>>
    /\ textures[Len(textures)].kind = "Image"
    /\ textures[Len(textures)].entity = iter - 1
    /\ textures[1].kind = "Sprite"
    /\ tex_id(textures[1]) > tex_id(textures[Len(textures)])

\* C18: when encode has returned from a non-empty batch, the instance counts
\* of its draw calls sum to the batch length, every call's buffer holds 15
\* scalars per instance, one buffer was allocated and one texture bound per
\* call, and the accumulator is empty; while it loops, the accumulator holds 15
\* scalars per accumulated instance and the records before i are the drawn and
\* the accumulated ones.
C18_EveryRecordDrawnOnce ==
    /\ (pc = "reset" /\ textures # <<>>) =>
         /\ SumInstances(draws) = Len(textures)
         /\ buffers = Len(draws) /\ Len(binds) = Len(draws)
         /\ instance_data = <<>> /\ num_instances = 0
    /\ \A k \in 1..Len(draws) :
         /\ draws[k].instances >= 1
         /\ Len(draws[k].vbuf) = 15 * draws[k].instances
    /\ pc = "encode_loop" =>
         /\ Len(instance_data) = 15 * num_instances
         /\ SumInstances(draws) + num_instances = i
         /\ buffers = Len(draws)

\* encode has returned from a batch of four records drawn with two calls, the
\* first of three instances and 45 scalars.
C18_Witness ==
    /\ pc = "reset" /\ Len(textures) = 4 /\ Len(draws) = 2
    /\ draws[1].instances = 3 /\ Len(draws[1].vbuf) = 45
    /\ draws[2].instances = 1 /\ Len(draws[2].vbuf) = 15
    /\ buffers = 2

\* C20: a buffer allocation that fails at a flush aborts encode there: every
\* allocation is followed at once by the draw call of its run or by the abort,
\* the aborted encode has issued the draw calls of the runs before the failed
\* one and no other, has allocated once for the failed run, and takes no
\* further step: no later draw call, no second allocation.
C20_AllocationFailureAborts ==
    /\ [][buffers' = buffers + 1 =>
            \/ pc' = "panic_buffer" /\ draws' = draws
            \/ pc' # "panic_buffer" /\ Len(draws') = Len(draws) + 1]_vars
    /\ [](pc = "panic_buffer" =>
            /\ need_flush(textures, i)
            /\ buffers = Len(draws) + 1
            /\ SumInstances(draws) = i + 1 - num_instances
            /\ DrawsAreRuns(draws, Runs(SubSeq(textures, 1, i + 1 - num_instances))))
    /\ [][pc = "panic_buffer" =>
            (pc' = pc /\ draws' = draws /\ buffers' = buffers /\ binds' = binds)]_vars

\* The allocation for the second run, of two records, has failed after the
\* first run was drawn, with a third run still to come.
C20_Witness ==
    /\ pc = "panic_buffer" /\ Len(draws) = 1 /\ buffers = 2
    /\ num_instances = 2 /\ i + 1 < Len(textures)

\* The entities listed in visible_ordered.
OrderedEntities ==
    IF data.visibility = None THEN {}
    ELSE {Unwrap(data.visibility).visible_ordered[k] :
            k \in 1..Len(Unwrap(data.visibility).visible_ordered)}

\* C19: once collection is over, every entity listed in visible_ordered has at
\* most one record in the batch; if it carries a sprite reference it has no
\* Image record, whether or not its Sprite record was appended, and at most the
\* one warning of its sprite; if it carries no transform it has no record.
C19_OrderedEntityAtMostOneRecord ==
    CollectionOver =>
        \A e \in OrderedEntities :
            LET c == data.components[e] IN
            /\ RecordsOf(e, "Sprite") + RecordsOf(e, "Image") <= 1
            /\ c.sprite_render # None =>
                 /\ RecordsOf(e, "Image") = 0
                 /\ RecordsOf(e, "Sprite") = 1 <=>
                      (c.transform # None /\ SheetTextureLoaded(Unwrap(c.sprite_render)))
            /\ c.transform = None =>
                 RecordsOf(e, "Sprite") = 0 /\ RecordsOf(e, "Image") = 0
            /\ Cardinality({k \in 1..Len(warnings) : warnings[k].entity = e}) <= 1

\* An ordered entity with a sprite reference and a raw texture reference was
\* dropped for its sprite sheet, which is not loaded, though its texture is;
\* another ordered entity has its record.
C19_Witness ==
    /\ pc = "reset" /\ textures # <<>>
    /\ \E e \in OrderedEntities :
         /\ data.components[e].sprite_render # None
         /\ data.components[e].texture_handle # None
         /\ ~SheetLoaded(Unwrap(data.components[e].sprite_render))
         /\ TextureLoaded(Unwrap(data.components[e].texture_handle))
         /\ RecordsOf(e, "Sprite") = 0 /\ RecordsOf(e, "Image") = 0
         /\ \E k \in 1..Len(warnings) : warnings[k].entity = e

====
